---- MODULE Spec2Model ----
(***************************************************************************)
(* NoiseDevice of torchquantum/device/noisedevices.py: the batched         *)
(* density-matrix buffer, its clone operations, its read-only views and    *)
(* the operation ledger.                                                   *)
(*                                                                         *)
(* A tensor is a record [shape, data]: data is the row-major (contiguous)  *)
(* sequence of its entries, so a reshape keeps data and replaces shape.    *)
(* An entry is a complex number with integer parts, <<re, im>>.            *)
(* Tensors live in a heap of objects; an attribute holds a reference, so   *)
(* that sharing of storage between the device and its caller is visible.   *)
(***************************************************************************)
EXTENDS Integers, Sequences, FiniteSets, TLC

\* ------------------------------------------------------------- bounds
MaxWires == 2
MaxBsz == 2
MaxOps == 2

\* ------------------------------------------------- complex arithmetic
CZero == <<0, 0>>
COne == <<1, 0>>
CImag == <<0, 1>>

CAdd(a, b) == <<a[1] + b[1], a[2] + b[2]>>

CMul(a, b) == <<a[1] * b[1] - a[2] * b[2], a[1] * b[2] + a[2] * b[1]>>

\* torch.conj
Conj(a) == <<a[1], 0 - a[2]>>

\* torch.abs of one complex entry: the modulus. Every entry the model
\* produces has a modulus that is an integer (the entries are products of
\* 0, 1 and i), and the modulus is computed as the exact root.
CAbs(a) ==
  LET m == a[1] * a[1] + a[2] * a[2]
  IN CHOOSE r \in 0..m : r * r = m

\* ------------------------------------------------------ tensor algebra
RECURSIVE Prod(_)
Prod(s) == IF s = <<>> THEN 1 ELSE Head(s) * Prod(Tail(s))

RECURSIVE Pow2(_)
Pow2(k) == IF k = 0 THEN 1 ELSE 2 * Pow2(k - 1)

Twos(k) == [j \in 1..k |-> 2]

Tensor(shape, data) == [shape |-> shape, data |-> data]

Err(kind) == [err |-> kind]

IsErr(x) == "err" \in DOMAIN x

Dim(t) == Len(t.shape)

Numel(t) == Len(t.data)

\* torch.reshape(t, shape) of a contiguous tensor
Reshape(t, shape) ==
  IF Prod(shape) = Numel(t) THEN Tensor(shape, t.data) ELSE Err("RuntimeError")

\* t.view(-1, d, 1)
ViewColumns(t, d) ==
  IF Numel(t) % d = 0
    THEN Tensor(<<Numel(t) \div d, d, 1>>, t.data)
    ELSE Err("RuntimeError")

\* t[index]
Select(t, index) ==
  IF Dim(t) = 0 \/ index >= t.shape[1]
    THEN Err("IndexError")
    ELSE LET sz == Prod(Tail(t.shape))
         IN Tensor(Tail(t.shape), SubSeq(t.data, index * sz + 1, (index + 1) * sz))

\* entry [b, i, j] of a rank-3 tensor
At3(t, b, i, j) == t.data[(b * t.shape[2] + i) * t.shape[3] + j + 1]

\* torch.conj(t)
ConjT(t) == Tensor(t.shape, [k \in 1..Numel(t) |-> Conj(t.data[k])])

\* t.transpose(1, 2) of a rank-3 tensor: out[b, i, j] = t[b, j, i]
Transpose12(t) ==
  LET ni == t.shape[3]
      nj == t.shape[2]
  IN Tensor(<<t.shape[1], ni, nj>>,
            [k \in 1..Numel(t) |->
               At3(t, (k - 1) \div (ni * nj), (k - 1) % nj, ((k - 1) \div nj) % ni)])

RECURSIVE CSum(_)
CSum(s) == IF s = <<>> THEN CZero ELSE CAdd(Head(s), CSum(Tail(s)))

\* torch.bmm(x, y): out[b, i, j] = sum over k of x[b, i, k] * y[b, k, j]
Bmm(x, y) ==
  IF Dim(x) # 3 \/ Dim(y) # 3 \/ x.shape[1] # y.shape[1] \/ x.shape[3] # y.shape[2]
    THEN Err("RuntimeError")
    ELSE LET ni == x.shape[2]
             nj == y.shape[3]
         IN Tensor(<<x.shape[1], ni, nj>>,
                   [e \in 1..(x.shape[1] * ni * nj) |->
                      CSum([k \in 1..x.shape[3] |->
                              CMul(At3(x, (e - 1) \div (ni * nj), ((e - 1) \div nj) % ni, k - 1),
                                   At3(y, (e - 1) \div (ni * nj), k - 1, (e - 1) % nj))])])

\* t.repeat(*times) with one more multiplier than t has axes, the
\* multipliers of t's own axes being 1: times[1] copies along a new axis
Repeat(t, times) ==
  Tensor(<<times[1]>> \o t.shape,
         [k \in 1..(times[1] * Numel(t)) |-> t.data[((k - 1) % Numel(t)) + 1]])

\* torch.trace of a 2D tensor
Trace2(m) ==
  LET d == IF m.shape[1] < m.shape[2] THEN m.shape[1] ELSE m.shape[2]
  IN CSum([k \in 1..d |-> m.data[(k - 1) * m.shape[2] + k]])

\* torch.abs(torch.diagonal(t, offset=0, dim1=1, dim2=2)) of a rank-3 tensor:
\* a real tensor of shape [b, d]
AbsDiagonalBatch(t) ==
  LET d == IF t.shape[2] < t.shape[3] THEN t.shape[2] ELSE t.shape[3]
  IN Tensor(<<t.shape[1], d>>,
            [k \in 1..(t.shape[1] * d) |->
               CAbs(At3(t, (k - 1) \div d, (k - 1) % d, (k - 1) % d))])

\* torch.abs(torch.diagonal(m, offset=0, dim1=0, dim2=1)) of a 2D tensor
AbsDiagonal(m) ==
  LET d == IF m.shape[1] < m.shape[2] THEN m.shape[1] ELSE m.shape[2]
  IN Tensor(<<d>>, [k \in 1..d |-> CAbs(m.data[(k - 1) * m.shape[2] + k])])

\* --------------------------------------------------------------- state
VARIABLES
  n_wires,        \* self.n_wires
  bsz,            \* self.bsz
  record_op,      \* self.record_op
  density,        \* self.density: the single-density snapshot (a tensor)
  densities,      \* self.densities: a reference to a tensor object of heap
  op_history,     \* self.op_history
  _noise_model,   \* self._noise_model
  heap,           \* the tensor objects: reference -> tensor, or Free
  call,           \* the last call: its name, argument, outcome, return value
  dispatched      \* the operator calls made since construction or the last reset

vars ==
  <<n_wires, bsz, record_op, density, densities, op_history, _noise_model,
    heap, call, dispatched>>

\* The tensor objects, by who creates them:
\*   "built"  the tensor built at construction (self._densities keeps a
\*            reference to it for the life of the device),
\*   "passed" the tensor the caller built for its last clone call and, the
\*            call having gone through, still holds (it lets go of the
\*            tensor of a call that raised, and of the one it held before),
\*   "made"   the tensor the last clone call created.
Refs == {"built", "passed", "made"}

Free == [free |-> TRUE]

None == [none |-> TRUE]

\* the batch buffer's tensor
Buf == heap[densities]

\* the caller's tensor
Source == heap["passed"]

\* The record of a call. arg is the shape of the tensor passed (the clone
\* operations), the index (get_2d_matrix, calc_trace), the descriptor (an
\* operator), the position written (write_source), or None.
Returned(name, arg, result, ret) ==
  [name |-> name, arg |-> arg, result |-> result, ret |-> ret]

\* -------------------------------------------------------- construction
\* NoiseModel(kraus_dict={"Bitflip": 0, "Phaseflip": 0})
DefaultNoiseModel == [_kraus_dict |-> [Bitflip |-> 0, Phaseflip |-> 0]]

\* GroundDensity with the 1 written to the last entry instead of the first
GroundDensity_last(n) ==
  Reshape(Tensor(<<Pow2(2 * n)>>,
                 [k \in 1..Pow2(2 * n) |-> IF k = Pow2(2 * n) THEN COne ELSE CZero]),
          Twos(2 * n))

\* _density = zeros(2 ** (2 * n)); _density[0] = 1; reshape to [2] * (2 * n)
GroundDensity(n) ==
  Reshape(Tensor(<<Pow2(2 * n)>>,
                 [k \in 1..Pow2(2 * n) |-> IF k = 1 THEN COne ELSE CZero]),
          Twos(2 * n))

\* self.density.repeat(*([bsz] + [1] * len(self.density.shape)))
InitialDensities(d, b) == Repeat(d, <<b>> \o [j \in 1..Dim(d) |-> 1])

Init ==
  /\ n_wires \in 1..MaxWires
  /\ bsz \in 1..MaxBsz
  /\ record_op \in BOOLEAN
  /\ density = GroundDensity(n_wires)
  /\ heap = [q \in Refs |->
               IF q = "built" THEN InitialDensities(density, bsz) ELSE Free]
  /\ densities = "built"
  /\ op_history = <<>>
  /\ _noise_model = DefaultNoiseModel
  /\ call = Returned("__init__", None, "ok", None)
  /\ dispatched = <<>>

\* ------------------------------------------------- the caller's tensors
\* A tensor of the given shape whose row r (one batch element, flattened)
\* holds 1 at column k + r (kind "one"), or 1 at column k + r and i at the
\* next column (kind "mix"), columns counted modulo the row length; every
\* other entry is 0.
Pattern(shape, k, kind) ==
  LET stride == Prod(Tail(shape))
  IN Tensor(shape,
            [e \in 1..Prod(shape) |->
               LET col == (e - 1) % stride
                   row == (e - 1) \div stride
               IN IF col = (k + row) % stride
                    THEN COne
                    ELSE IF kind = "mix" /\ col = (k + row + 1) % stride
                           THEN CImag
                           ELSE CZero])

Kinds == {"one", "mix"}

\* Shapes of state batches a caller may pass for an n-qubit device: the
\* per-qubit layout, the flattened layout, two of the right rank and the
\* wrong size, and a density tensor.
StateShapes(n) ==
  UNION {{<<b>> \o Twos(n),
          <<b, Pow2(n)>>,
          <<b>> \o Twos(n - 1) \o <<4>>,
          <<b>> \o Twos(n - 1) \o <<3>>,
          <<b>> \o Twos(2 * n)} : b \in 1..MaxBsz}

\* the state batches passed to an n-qubit device, for each n
StateInputs ==
  [n \in 1..MaxWires |->
     {Pattern(s, Pow2(n) - 1, kind) : s \in StateShapes(n), kind \in Kinds}]

\* Shapes of density batches a caller may pass: the expanded layout, one
\* axis short, one axis of size 3, and the 2D-matrix layout.
DensityShapes(n) ==
  UNION {{<<b>> \o Twos(2 * n),
          <<b>> \o Twos(2 * n - 1),
          <<b>> \o Twos(2 * n - 1) \o <<3>>,
          <<b, Pow2(n), Pow2(n)>>} : b \in 1..MaxBsz}

\* the density batches passed to an n-qubit device, for each n
DensityInputs ==
  [n \in 1..MaxWires |->
     {Pattern(s, 1, kind) : s \in DensityShapes(n), kind \in Kinds}]

\* one tensor of each shape
FewStateInputs ==
  [n \in 1..MaxWires |-> {Pattern(s, 1, "mix") : s \in StateShapes(n)}]

FewDensityInputs ==
  [n \in 1..MaxWires |-> {Pattern(s, 1, "mix") : s \in DensityShapes(n)}]

\* one well-formed density batch of each batch size
WellFormedInputs ==
  [n \in 1..MaxWires |->
     {Pattern(<<b>> \o Twos(2 * n), 1, "mix") : b \in 1..MaxBsz}]

\* ---------------------------------------------------- clone operations
Frame == UNCHANGED <<n_wires, bsz, record_op, density, op_history, _noise_model, dispatched>>

\* whether t has the expanded layout [*] + [2] * (2 * n)
WellFormed(t, n) == Dim(t) = 2 * n + 1 /\ \A a \in 2..Dim(t) : t.shape[a] = 2

\* clone_densities keeping a reference to its argument: no .clone()
clone_densities_alias(existing_densities) ==
  /\ heap' = [heap EXCEPT !["passed"] = existing_densities, !["made"] = Free]
  /\ densities' = "passed"
  /\ call' = Returned("clone_densities", existing_densities.shape, "ok", None)
  /\ Frame

\* clone_densities with a check of the layout in front of the assignment
clone_densities_checked(existing_densities) ==
  /\ heap' = IF WellFormed(existing_densities, n_wires)
               THEN [heap EXCEPT !["passed"] = existing_densities,
                                 !["made"] = existing_densities]
               ELSE [heap EXCEPT !["passed"] = Free]
  /\ densities' = IF WellFormed(existing_densities, n_wires) THEN "made" ELSE densities
  /\ call' = Returned("clone_densities", existing_densities.shape,
                      IF WellFormed(existing_densities, n_wires)
                        THEN "ok" ELSE "AssertionError", None)
  /\ Frame

\* self.densities = existing_densities.clone()
clone_densities(existing_densities) ==
  /\ heap' = [heap EXCEPT !["passed"] = existing_densities,
                          !["made"] = existing_densities]
  /\ densities' = "made"
  /\ call' = Returned("clone_densities", existing_densities.shape, "ok", None)
  /\ Frame

\* OuterProduct with the transpose alone, the conjugation left out
OuterProduct_transpose(states_reshaped) ==
  Bmm(states_reshaped, Transpose12(states_reshaped))

\* torch.bmm(states_reshaped, torch.conj(states_reshaped).transpose(1, 2))
OuterProduct(states_reshaped) ==
  Bmm(states_reshaped, Transpose12(ConjT(states_reshaped)))

\* RankAccepted asking for a flattened batch, [batch, amplitudes]
RankAccepted_flat(existing_states) == Dim(existing_states) = 2

\* the rank assertion of clone_from_states
RankAccepted(existing_states) == 2 * (Dim(existing_states) - 1) = Dim(Buf) - 1

clone_from_states(existing_states) ==
  LET dropped == [heap EXCEPT !["passed"] = Free]
      state_dim == Pow2(n_wires)
      states_reshaped == ViewColumns(existing_states, state_dim)
      product == OuterProduct(states_reshaped)
      reshaped == Reshape(product, <<existing_states.shape[1]>> \o Twos(2 * n_wires))
  IN /\ IF ~RankAccepted(existing_states)
          THEN /\ heap' = dropped
               /\ densities' = densities
               /\ call' = Returned("clone_from_states", existing_states.shape, "AssertionError", None)
          ELSE IF IsErr(states_reshaped)
          THEN /\ heap' = dropped
               /\ densities' = densities
               /\ call' = Returned("clone_from_states", existing_states.shape, "RuntimeError", None)
          ELSE IF IsErr(reshaped)
          THEN \* line 178 has assigned the product; line 179 raises
               /\ heap' = [dropped EXCEPT !["made"] = product]
               /\ densities' = "made"
               /\ call' = Returned("clone_from_states", existing_states.shape, "RuntimeError", None)
          ELSE /\ heap' = [heap EXCEPT !["passed"] = existing_states,
                                       !["made"] = reshaped]
               /\ densities' = "made"
               /\ call' = Returned("clone_from_states", existing_states.shape, "ok", None)
     /\ Frame

\* ---------------------------------------------------------------- views
\* torch.reshape(self.densities[index], [2 ** self.n_wires] * 2)
get_2d_matrix(index) ==
  LET element == Select(Buf, index)
  IN IF IsErr(element)
       THEN element
       ELSE Reshape(element, <<Pow2(n_wires), Pow2(n_wires)>>)

get_densities_2d ==
  Reshape(Buf, <<Buf.shape[1], Pow2(n_wires), Pow2(n_wires)>>)

get_density_2d == Reshape(density, <<Pow2(n_wires), Pow2(n_wires)>>)

calc_trace(index) ==
  LET element == Select(Buf, index)
      _matrix == IF IsErr(element)
                   THEN element
                   ELSE Reshape(element, <<Pow2(n_wires), Pow2(n_wires)>>)
  IN IF IsErr(_matrix) THEN _matrix ELSE Tensor(<<>>, <<Trace2(_matrix)>>)

get_probs_1d ==
  LET densities2d == Reshape(Buf, <<Buf.shape[1], Pow2(n_wires), Pow2(n_wires)>>)
  IN IF IsErr(densities2d) THEN densities2d ELSE AbsDiagonalBatch(densities2d)

get_prob_1d ==
  LET density2d == Reshape(density, <<Pow2(n_wires), Pow2(n_wires)>>)
  IN IF IsErr(density2d) THEN density2d ELSE AbsDiagonal(density2d)

\* the fields __repr__ formats (the device name and the computing device
\* are fixed strings and are left out)
__repr__ ==
  LET states == get_probs_1d
  IN IF IsErr(states)
       THEN states
       ELSE [n_wires |-> n_wires, bsz |-> bsz, record_op |-> record_op,
             states |-> states]

noise_model == _noise_model

\* a call of a view: the value goes to the caller, the device is untouched
Returns(name, arg, value) ==
  /\ call' = IF IsErr(value)
               THEN Returned(name, arg, value.err, None)
               ELSE Returned(name, arg, "ok", value)
  /\ UNCHANGED <<n_wires, bsz, record_op, density, densities, op_history,
                 _noise_model, heap, dispatched>>

Indices == 0..(MaxBsz - 1)

Call_get_2d_matrix == \E index \in Indices : Returns("get_2d_matrix", index, get_2d_matrix(index))

Call_get_densities_2d == Returns("get_densities_2d", None, get_densities_2d)

Call_get_density_2d == Returns("get_density_2d", None, get_density_2d)

Call_calc_trace == \E index \in Indices : Returns("calc_trace", index, calc_trace(index))

Call_get_probs_1d == Returns("get_probs_1d", None, get_probs_1d)

Call_get_prob_1d == Returns("get_prob_1d", None, get_prob_1d)

Call_repr == Returns("__repr__", None, __repr__)

Call_noise_model == Returns("noise_model", None, noise_model)

\* ------------------------------------------------------------ the ledger
\* reset_op_history leaving the ledger as it is
reset_op_history_keep ==
  /\ op_history' = op_history
  /\ dispatched' = <<>>
  /\ call' = Returned("reset_op_history", None, "ok", None)
  /\ UNCHANGED <<n_wires, bsz, record_op, density, densities, _noise_model, heap>>

\* reset_op_history resetting the batch buffer to the constructed one too
reset_op_history_all ==
  /\ op_history' = <<>>
  /\ dispatched' = <<>>
  /\ densities' = "built"
  /\ call' = Returned("reset_op_history", None, "ok", None)
  /\ UNCHANGED <<n_wires, bsz, record_op, density, _noise_model, heap>>

reset_op_history ==
  /\ op_history' = <<>>
  /\ dispatched' = <<>>
  /\ call' = Returned("reset_op_history", None, "ok", None)
  /\ UNCHANGED <<n_wires, bsz, record_op, density, densities, _noise_model, heap>>

\* The operators attached by name (lines 185-189) are defined outside this
\* file. Two of them stand for the catalog: each changes the batch buffer
\* in place and, with recording on, appends its descriptor to the ledger.
Descriptors ==
  {[name |-> "paulix", wires |-> <<0>>], [name |-> "i", wires |-> <<0>>]}

\* X on qubit 0 of every batch element, rho -> X rho X ("paulix"), or the
\* identity ("i"), when the buffer holds whole 2^n x 2^n matrices; no
\* change otherwise
ApplyGate(t, name, n) ==
  LET d == Pow2(n)
      half == d \div 2
      old(e) ==
        LET b == (e - 1) \div (d * d)
            i == ((e - 1) \div d) % d
            j == (e - 1) % d
        IN IF name = "paulix"
             THEN t.data[(b * d + ((i + half) % d)) * d + ((j + half) % d) + 1]
             ELSE t.data[e]
  IN IF Numel(t) % (d * d) # 0
       THEN t
       ELSE Tensor(t.shape, [e \in 1..Numel(t) |-> old(e)])

Operator(desc) ==
  /\ Len(dispatched) < MaxOps
  /\ heap' = [heap EXCEPT ![densities] = ApplyGate(@, desc.name, n_wires)]
  /\ op_history' = IF record_op THEN Append(op_history, desc) ELSE op_history
  /\ dispatched' = Append(dispatched, desc)
  /\ call' = Returned(desc.name, desc, "ok", None)
  /\ UNCHANGED <<n_wires, bsz, record_op, density, densities, _noise_model>>

\* ------------------------------------------------------------ the caller
\* The caller writes 1 into an entry of the tensor it passed last, in
\* place: the first entry or the last one.
write_source(p) ==
  /\ Source # Free
  /\ p \in {1, Numel(Source)}
  /\ Source.data[p] # COne
  /\ heap' = [heap EXCEPT !["passed"].data[p] = COne]
  /\ call' = Returned("write_source", p, "ok", None)
  /\ UNCHANGED <<n_wires, bsz, record_op, density, densities, op_history,
                 _noise_model, dispatched>>

\* The caller lets go of the tensor it passed (it rebinds its variable to
\* another tensor). The object lives on if the device refers to it.
release_source ==
  /\ Source # Free
  /\ heap' = IF densities = "passed"
               THEN [heap EXCEPT !["made"] = Source, !["passed"] = Free]
               ELSE [heap EXCEPT !["passed"] = Free]
  /\ densities' = IF densities = "passed" THEN "made" ELSE densities
  /\ call' = Returned("release_source", None, "ok", None)
  /\ UNCHANGED <<n_wires, bsz, record_op, density, op_history, _noise_model,
                 dispatched>>

\* ------------------------------------------------------ specifications
\* The clone operations, on every tensor of the caller's families.
Next ==
  \/ \E t \in DensityInputs[n_wires] : clone_densities(t)
  \/ \E t \in StateInputs[n_wires] : clone_from_states(t)

Spec == Init /\ [][Next]_vars

\* The views, between clone operations on one tensor of each shape.
NextViews ==
  \/ \E t \in FewDensityInputs[n_wires] : clone_densities(t)
  \/ \E t \in FewStateInputs[n_wires] : clone_from_states(t)
  \/ Call_get_2d_matrix
  \/ Call_get_densities_2d
  \/ Call_get_density_2d
  \/ Call_calc_trace
  \/ Call_get_probs_1d
  \/ Call_get_prob_1d
  \/ Call_repr
  \/ Call_noise_model

SpecViews == Init /\ [][NextViews]_vars

\* The ledger and the sharing of storage: operators, resets, clones of
\* well-formed batches, and the caller's writes to the tensor it passed.
NextOps ==
  \/ \E desc \in Descriptors : Operator(desc)
  \/ reset_op_history
  \/ \E t \in WellFormedInputs[n_wires] : clone_densities(t)
  \/ \E p \in 1..(MaxBsz * Pow2(2 * MaxWires)) : write_source(p)
  \/ release_source
  \/ Call_get_probs_1d

SpecOps == Init /\ [][NextOps]_vars

\* ------------------------------------------------------------- claims
\* the batch size of a state batch of shape s
Rows(s) == s[1]

\* C1: a clone_from_states call on a state batch whose per-element
\* flattened dimension is not 2^n_wires fails, and the batch buffer after
\* the failed call equals the buffer before it, in shape and in every entry.
C1_FailedLiftKeepsBuffer ==
  [][(call'.name = "clone_from_states" /\ Prod(Tail(call'.arg)) # Pow2(n_wires))
       => (call'.result # "ok" /\ heap'[densities'] = heap[densities])]_vars

\* C2 as stated: on a freshly constructed device, clone_from_states accepts
\* every flattened batch of shape [batch_size, 2^n_wires] and leaves the
\* buffer with shape [batch_size] + [2] * (2 * n_wires).
C2_FlatBatchAccepted ==
  [][(call.name = "__init__" /\ call'.name = "clone_from_states"
        /\ call'.arg = <<Rows(call'.arg), Pow2(n_wires)>>)
       => (call'.result = "ok"
           /\ heap'[densities'].shape = <<Rows(call'.arg)>> \o Twos(2 * n_wires))]_vars

\* C2 amended: on a freshly constructed device, clone_from_states accepts
\* every batch in the per-qubit layout [batch_size] + [2] * n_wires and
\* leaves the buffer with shape [batch_size] + [2] * (2 * n_wires); for
\* n_wires >= 2 the flattened batch [batch_size, 2^n_wires] fails the rank
\* assertion and the buffer stays as it was.
C2_PerQubitBatchAccepted ==
  [][(call.name = "__init__" /\ call'.name = "clone_from_states") =>
       /\ call'.arg = <<Rows(call'.arg)>> \o Twos(n_wires)
            => (call'.result = "ok"
                /\ heap'[densities'].shape = <<Rows(call'.arg)>> \o Twos(2 * n_wires))
       /\ (n_wires >= 2 /\ call'.arg = <<Rows(call'.arg), Pow2(n_wires)>>)
            => (call'.result = "AssertionError"
                /\ heap'[densities'] = heap[densities])]_vars

\* a per-qubit batch of a 2-qubit device, of another batch size, was lifted
C2_Witness ==
  /\ call.name = "clone_from_states"
  /\ call.result = "ok"
  /\ call.arg = <<2, 2, 2>>
  /\ n_wires = 2
  /\ bsz = 1
  /\ Buf.shape = <<2, 2, 2, 2, 2>>

\* the matrix S[b] S[b]^dagger of row b of the state batch t, d amplitudes a row
Projector(t, b, d) ==
  Tensor(<<d, d>>,
         [e \in 1..(d * d) |->
            CMul(t.data[b * d + ((e - 1) \div d) + 1],
                 Conj(t.data[b * d + ((e - 1) % d) + 1]))])

\* the conjugate transpose of a 2D tensor
Dagger(m) ==
  Tensor(<<m.shape[2], m.shape[1]>>,
         [e \in 1..Numel(m) |->
            Conj(m.data[((e - 1) % m.shape[1]) * m.shape[2]
                        + ((e - 1) \div m.shape[1]) + 1])])

\* the squared moduli of the amplitudes of the state batch t
SquaredModuli(t, d) ==
  Tensor(<<Rows(t.shape), d>>,
         [e \in 1..Numel(t) |->
            t.data[e][1] * t.data[e][1] + t.data[e][2] * t.data[e][2]])

\* C3: whenever clone_from_states(S) succeeds, entry (i, j) of the 2D
\* matrix of batch element b is S[b][i] * conj(S[b][j]); so each element is
\* Hermitian, its diagonal is |S[b][i]|^2, and S = [[0, 1]] on one qubit
\* gives the probabilities [0, 1] and the trace 1.
C3_LiftIsConjugatedOuterProduct ==
  (call.name = "clone_from_states" /\ call.result = "ok") =>
    /\ Source.shape = call.arg
    /\ \A b \in 0..(Rows(Source.shape) - 1) :
         /\ get_2d_matrix(b) = Projector(Source, b, Pow2(n_wires))
         /\ get_2d_matrix(b) = Dagger(get_2d_matrix(b))
    /\ get_probs_1d = SquaredModuli(Source, Pow2(n_wires))
    /\ Source = Tensor(<<1, 2>>, <<CZero, COne>>) =>
         /\ get_probs_1d = Tensor(<<1, 2>>, <<0, 1>>)
         /\ calc_trace(0) = Tensor(<<>>, <<COne>>)

\* a lift that shows the conjugation: an entry -i, from 1 * conj(i)
C3_Witness ==
  /\ call.name = "clone_from_states"
  /\ call.result = "ok"
  /\ \E e \in 1..Numel(Source) : Source.data[e] = CImag
  /\ \E e \in 1..Numel(Buf) : Buf.data[e] = <<0, 0 - 1>>

\* C7: a freshly constructed device has a buffer of shape
\* [bsz] + [2] * (2 * n_wires) whose every element is the ground state: 1 at
\* (0, 0), 0 elsewhere, trace 1, probabilities 1 at index 0 and 0 elsewhere.
C7_FreshDeviceIsGround ==
  call.name = "__init__" =>
    LET d == Pow2(n_wires)
    IN /\ Buf.shape = <<bsz>> \o Twos(2 * n_wires)
       /\ get_probs_1d.shape = <<bsz, d>>
       /\ \A i \in 0..(bsz - 1) :
            /\ get_2d_matrix(i).shape = <<d, d>>
            /\ \A r, c \in 0..(d - 1) :
                 get_2d_matrix(i).data[r * d + c + 1] =
                   IF r = 0 /\ c = 0 THEN COne ELSE CZero
            /\ calc_trace(i) = Tensor(<<>>, <<COne>>)
            /\ \A c \in 0..(d - 1) :
                 get_probs_1d.data[i * d + c + 1] = IF c = 0 THEN 1 ELSE 0

\* a fresh two-qubit device with a batch of two
C7_Witness == call.name = "__init__" /\ n_wires = 2 /\ bsz = 2 /\ densities = "built"

\* C8 as stated: clone_densities on a tensor that does not have the
\* expanded layout of the receiver raises an error and does not replace
\* the receiver's buffer.
C8_MalformedCloneRejected ==
  [][(call'.name = "clone_densities"
        /\ ~(/\ Len(call'.arg) = 2 * n_wires + 1
             /\ \A a \in 2..Len(call'.arg) : call'.arg[a] = 2))
       => (call'.result # "ok" /\ heap'[densities'] = heap[densities])]_vars

\* C8 amended: clone_densities checks nothing: on a tensor of any rank and
\* any axis sizes it raises no error and replaces the receiver's buffer
\* with a copy of that tensor.
C8_CloneAcceptsAnyLayout ==
  call.name = "clone_densities" =>
    /\ call.result = "ok"
    /\ Source.shape = call.arg
    /\ Buf = Source
    /\ densities = "made"

\* the buffer holds a tensor with an axis of size 3, taken by clone_densities
C8_Witness ==
  /\ call.name = "clone_densities"
  /\ call.result = "ok"
  /\ \E a \in 2..Dim(Buf) : Buf.shape[a] = 3

\* C10: in every reachable state the recorded batch size bsz equals the
\* leading dimension of the batch buffer.
C10_BszIsLeadingDimension == bsz = Buf.shape[1]

\* C4: after clone_densities(source) the receiver's buffer is a copy that
\* shares no storage with source: a later in-place write to source, or the
\* caller replacing source, leaves every entry of the receiver's buffer as
\* it was, and a later in-place change of the receiver's buffer leaves
\* source as it was.
C4_CloneSharesNoStorage ==
  [][/\ call'.name = "clone_densities"
          => (densities' # "passed" /\ heap'[densities'] = heap'["passed"])
     /\ call'.name \in {"write_source", "release_source"}
          => heap'[densities'] = heap[densities]
     /\ (call'.name \in {desc.name : desc \in Descriptors} /\ Source # Free)
          => heap'["passed"] = heap["passed"]]_vars

\* the caller has written to the tensor it passed to clone_densities, and
\* the receiver's buffer still holds what was cloned
C4_Witness ==
  /\ call.name = "write_source"
  /\ densities = "made"
  /\ Source # Free
  /\ Buf # Source
  /\ Buf \in WellFormedInputs[n_wires]

\* C5: with record_op false the ledger is empty after every step; with
\* record_op true it holds, after N operator calls since construction or the
\* last reset, exactly the N descriptors of those calls, in call order and
\* with repetitions, whatever clone and view calls come in between.
C5_LedgerFollowsCalls == op_history = IF record_op THEN dispatched ELSE <<>>

\* the same operator recorded twice in a row, on a buffer taken by a clone
C5_Witness ==
  /\ record_op
  /\ Len(op_history) = 2
  /\ op_history[1] = op_history[2]
  /\ densities = "made"

\* C6: reset_op_history leaves the ledger empty and leaves the batch
\* buffer, the single-density snapshot, the recording flag, the batch size
\* and the noise model as they were.
C6_ResetClearsOnlyLedger ==
  [][call'.name = "reset_op_history" =>
       /\ op_history' = <<>>
       /\ heap'[densities'] = heap[densities]
       /\ UNCHANGED <<density, record_op, bsz, _noise_model>>]_vars

\* a reset on a recording device whose buffer is no longer the constructed one
C6_Witness ==
  /\ call.name = "reset_op_history"
  /\ record_op
  /\ op_history = <<>>
  /\ densities = "made"
  /\ Buf # heap["built"]

ViewNames ==
  {"get_2d_matrix", "get_densities_2d", "calc_trace", "get_probs_1d",
   "get_density_2d", "get_prob_1d"}

\* the value a batch view returned is the one read off the buffer, entry by entry
BatchViewReadsBuffer ==
  LET d == Pow2(n_wires)
      r == call.ret
  IN /\ call.name = "get_2d_matrix" =>
          /\ r.shape = <<d, d>>
          /\ \A i, j \in 0..(d - 1) :
               r.data[i * d + j + 1] = Buf.data[(call.arg * d + i) * d + j + 1]
     /\ call.name = "get_densities_2d" =>
          /\ r.shape = <<Buf.shape[1], d, d>>
          /\ r.data = Buf.data
     /\ call.name = "calc_trace" =>
          r = Tensor(<<>>, <<CSum([i \in 1..d |->
                                    Buf.data[(call.arg * d + i - 1) * d + i]])>>)
     /\ call.name = "get_probs_1d" =>
          /\ r.shape = <<Buf.shape[1], d>>
          /\ \A b \in 0..(Buf.shape[1] - 1), i \in 0..(d - 1) :
               r.data[b * d + i + 1] = CAbs(Buf.data[(b * d + i) * d + i + 1])

\* C9: once the buffer has been replaced by a clone call, every view returns
\* a value computed from the batch buffer's contents at the moment of the
\* call: the batch views its entries, get_density_2d the matrix and
\* get_prob_1d the probabilities of one of its elements, and none of them
\* what the buffer held at construction.
C9_ViewsReadCurrentBuffer ==
  (/\ call.name \in ViewNames
   /\ call.result = "ok"
   /\ densities # "built"
   /\ WellFormed(Buf, n_wires)) =>
    /\ BatchViewReadsBuffer
    /\ call.name = "get_density_2d" =>
         \E b \in Indices : call.ret = get_2d_matrix(b)
    /\ call.name = "get_prob_1d" =>
         \E b \in Indices :
           /\ ~IsErr(get_probs_1d)
           /\ b < Buf.shape[1]
           /\ call.ret.data =
                SubSeq(get_probs_1d.data, b * Pow2(n_wires) + 1, (b + 1) * Pow2(n_wires))

====
